---- MODULE Spec2Model ----
(***************************************************************************)
(* A model of snarl, a literate-programming processor (snarl/main.py).     *)
(*                                                                         *)
(* A line of text is a sequence of tokens (strings); the trailing newline  *)
(* is left implicit.  The regular expressions of main.py, the two argparse *)
(* parsers, html.escape and re.sub are operators on token sequences.  A    *)
(* parse is a stack of frames, one per active call of Snarl.parse; an      *)
(* exception unwinds the whole stack.  A block's fd is its lines together  *)
(* with the stream position, which generate and write_codeblock move.      *)
(***************************************************************************)
EXTENDS Integers, Sequences, FiniteSets, TLC

VARIABLES
    fs,              \* what open(path, 'r') finds: path -> lines
    ignore_missing,  \* Snarl.ignore_missing
    frames,          \* the active calls of Snarl.parse, outermost first
    _blocks,         \* Snarl._blocks: an insertion-ordered dict, as entries
    blocknum,        \* Snarl.blocknum: the next value of itertools.count()
    ctx,             \* Snarl.ctx: ln, line and block (the current label)
    outfd,           \* Snarl.outfd: the lines written to the Output Sink
    phase,           \* "init", "parsing", "done" (parse returned), "failed"
    err,             \* the exception that left parse: type and argument
    it,              \* the caller's iterator obtained from generate
    it2,             \* a second iterator a caller of the library may hold
    listing,         \* the caller's last result of blocks() or files()
    hist             \* history: what the parse has done so far

vars == <<fs, ignore_missing, frames, _blocks, blocknum, ctx, outfd, phase,
          err, it, it2, listing, hist>>

----------------------------------------------------------------------------
(* Program constants and the bounds of the model *)

MAX_INCLUDE_DEPTH == 10

\* the longest chain of distinct files, each including the next
MaxChain == 11

\* the most chunks (a whole block, or a single line) a drawn document holds
MaxChunks == 2

\* the nesting of generators at which Python gives up (RecursionError)
MaxGenDepth == 3

None == ""

INIT == "INIT"
READ_CODEBLOCK == "READ_CODEBLOCK"

\* snarl/exc.py: the classes derived from SnarlError
SnarlError == {"RecursiveIncludeError", "BlockArgumentError", "UnexpectedEOFError"}

NoError == [type |-> "none", arg |-> 0]

----------------------------------------------------------------------------
(* Tokens *)

\* the code fence: three backquotes, written with quote marks because a TLA+
\* string cannot hold a backquote
FENCE == "'''"

\* a token argparse takes for an option: it starts with '-'
IsOption(t) ==
    t \in {"--hide", "-H", "--file", "-f", "--tag", "-t", "--replace", "-r",
           "--escape-html", "--verbatim", "--lang", "-e", "-v", "--unknown",
           "--help", "-h"}

\* \w+ : a token made of word characters only
IsWord(t) == t \in {"py", "a", "b", "c", "A", "B", "foo", "bar", "p", "q"}

RECURSIVE Flatten(_)
Flatten(ss) == IF ss = <<>> THEN <<>> ELSE Head(ss) \o Flatten(Tail(ss))

SeqSet(s) == {s[i] : i \in 1..Len(s)}

\* html.escape on one token: & < > become entities
EscapeToken(t) ==
    CASE t = "<!--" -> "&lt;!--"
      [] t = "-->" -> "--&gt;"
      [] t = "<<" -> "&lt;&lt;"
      [] t = ">>" -> "&gt;&gt;"
      [] t = "<b>" -> "&lt;b&gt;"
      [] t = "<<!--" -> "&lt;&lt;!--"
      [] t = "&lt;!--" -> "&amp;lt;!--"
      [] t = "--&gt;" -> "--&amp;gt;"
      [] t = "&lt;&lt;" -> "&amp;lt;&amp;lt;"
      [] t = "&gt;&gt;" -> "&amp;gt;&amp;gt;"
      [] t = "&lt;b&gt;" -> "&amp;lt;b&amp;gt;"
      [] OTHER -> t

html_escape(line) == [i \in 1..Len(line) |-> EscapeToken(line[i])]

\* html_escaper(fd): every line of the stream escaped
html_escaper(lines) == [i \in 1..Len(lines) |-> html_escape(lines[i])]

----------------------------------------------------------------------------
(* The regular expressions of main.py (lines 22-25), on token sequences *)

NoMatch == [matched |-> FALSE]

\* lines that begin with a doubled character: four backquotes, of which
\* re_start_codeblock matches the first three and no group; two backslashes
\* before a fence and "<<!--", which no expression matches from the start
DoubledFence == "''''"

BackslashFence == "\\\\'''"

DoubledComment == "<<!--"

\* re_start_codeblock = ^'''(?P<lang>\w+)?((?P<append>\+)?=(?P<args>.+))?
\* matched with .match, so whatever follows the groups is ignored
re_start_codeblock(line) ==
    IF line # <<>> /\ line[1] = DoubledFence
    THEN [matched |-> TRUE, lang |-> None, append |-> FALSE, args |-> <<>>]
    ELSE IF line = <<>> \/ line[1] # FENCE THEN NoMatch
    ELSE LET hasLang == Len(line) >= 2 /\ IsWord(line[2])
             lang == IF hasLang THEN line[2] ELSE None
             rest == SubSeq(line, IF hasLang THEN 3 ELSE 2, Len(line))
         IN  IF Len(rest) >= 2 /\ rest[1] = "="
             THEN [matched |-> TRUE, lang |-> lang, append |-> FALSE,
                   args |-> Tail(rest)]
             ELSE IF Len(rest) >= 3 /\ rest[1] = "+" /\ rest[2] = "="
             THEN [matched |-> TRUE, lang |-> lang, append |-> TRUE,
                   args |-> Tail(Tail(rest))]
             ELSE [matched |-> TRUE, lang |-> lang, append |-> FALSE,
                   args |-> <<>>]

\* re_end_codeblock = ^'''$
re_end_codeblock(line) == line = <<FENCE>>

\* re_include_block = ^\s*<<(?P<label>.+)>>$
re_include_block(line) ==
    IF Len(line) = 3 /\ line[1] = "<<" /\ line[3] = ">>"
    THEN [matched |-> TRUE, label |-> line[2]]
    ELSE NoMatch

\* re_include_file = ^<!-- i(nclude)? (?P<args>.*) -->$
re_include_file(line) ==
    IF Len(line) >= 3 /\ line[1] = "<!--" /\ line[2] \in {"include", "i"}
       /\ line[Len(line)] = "-->"
    THEN [matched |-> TRUE, args |-> SubSeq(line, 3, Len(line) - 1)]
    ELSE NoMatch

----------------------------------------------------------------------------
(* The argparse parsers.  ok = FALSE stands for ArgumentParser.error,      *)
(* which raises BlockArgumentError.                                        *)

\* create_block_parser: the defaults of the namespace
BlockDefaults ==
    [ok |-> TRUE, label |-> None, hide |-> FALSE, file |-> FALSE,
     tag |-> <<>>, replace |-> <<>>, escape_html |-> FALSE,
     verbatim |-> FALSE, lang |-> None, npos |-> 0, extra |-> FALSE,
     help |-> FALSE]

\* block_parser.parse_args, from argument i on.  An option short of its
\* arguments is an error where it stands; an unknown option or a second
\* positional is kept aside (extra) and is an error once all arguments are
\* read; -h, which ArgumentParser() adds, prints the help and exits the
\* process (SystemExit) where it stands.  Unambiguous prefixes of the long
\* options, which argparse accepts, are not among the tokens.
RECURSIVE BlockParseFrom(_, _, _)
BlockParseFrom(args, i, ns) ==
    IF ~ns.ok THEN ns
    ELSE IF i > Len(args) THEN [ns EXCEPT !.ok = ~ns.extra]
    ELSE LET t == args[i]
             has(n) == /\ i + n <= Len(args)
                       /\ \A k \in 1..n : ~IsOption(args[i + k])
         IN  CASE t \in {"--hide", "-H"} ->
                    BlockParseFrom(args, i + 1, [ns EXCEPT !.hide = TRUE])
               [] t \in {"--file", "-f"} ->
                    BlockParseFrom(args, i + 1, [ns EXCEPT !.file = TRUE])
               [] t = "--escape-html" ->
                    BlockParseFrom(args, i + 1, [ns EXCEPT !.escape_html = TRUE])
               [] t = "--verbatim" ->
                    BlockParseFrom(args, i + 1, [ns EXCEPT !.verbatim = TRUE])
               [] t \in {"--tag", "-t"} ->
                    IF has(1)
                    THEN BlockParseFrom(args, i + 2,
                            [ns EXCEPT !.tag = Append(@, args[i + 1])])
                    ELSE [ns EXCEPT !.ok = FALSE]
               [] t \in {"--replace", "-r"} ->
                    IF has(2)
                    THEN BlockParseFrom(args, i + 3,
                            [ns EXCEPT !.replace =
                                Append(@, <<args[i + 1], args[i + 2]>>)])
                    ELSE [ns EXCEPT !.ok = FALSE]
               [] t = "--lang" ->
                    IF has(1)
                    THEN BlockParseFrom(args, i + 2,
                            [ns EXCEPT !.lang = args[i + 1]])
                    ELSE [ns EXCEPT !.ok = FALSE]
               [] t \in {"--help", "-h"} ->
                    [ns EXCEPT !.ok = FALSE, !.help = TRUE]
               [] IsOption(t) /\ t \notin {"--hide", "-H", "--file", "-f",
                        "--escape-html", "--verbatim", "--tag", "-t",
                        "--replace", "-r", "--lang", "--help", "-h"} ->
                    BlockParseFrom(args, i + 1, [ns EXCEPT !.extra = TRUE])
               [] OTHER ->
                    IF ns.npos = 0
                    THEN BlockParseFrom(args, i + 1,
                            [ns EXCEPT !.label = t, !.npos = 1])
                    ELSE BlockParseFrom(args, i + 1, [ns EXCEPT !.extra = TRUE])

block_parser(args) == BlockParseFrom(args, 1, BlockDefaults)

\* create_include_parser: the defaults of the namespace
IncludeDefaults ==
    [ok |-> TRUE, path |-> None, escape_html |-> FALSE, verbatim |-> FALSE,
     npos |-> 0, extra |-> FALSE, help |-> FALSE]

\* include_parser.parse_args, from argument i on; path is required
RECURSIVE IncludeParseFrom(_, _, _)
IncludeParseFrom(args, i, ns) ==
    IF ~ns.ok THEN ns
    ELSE IF i > Len(args) THEN [ns EXCEPT !.ok = (ns.npos = 1 /\ ~ns.extra)]
    ELSE LET t == args[i]
         IN  CASE t \in {"--escape-html", "-e"} ->
                    IncludeParseFrom(args, i + 1, [ns EXCEPT !.escape_html = TRUE])
               [] t \in {"--verbatim", "-v"} ->
                    IncludeParseFrom(args, i + 1, [ns EXCEPT !.verbatim = TRUE])
               [] t \in {"--help", "-h"} ->
                    [ns EXCEPT !.ok = FALSE, !.help = TRUE]
               [] IsOption(t) /\ t \notin {"--escape-html", "-e", "--verbatim",
                        "-v", "--help", "-h"} ->
                    IncludeParseFrom(args, i + 1, [ns EXCEPT !.extra = TRUE])
               [] OTHER ->
                    IF ns.npos = 0
                    THEN IncludeParseFrom(args, i + 1,
                            [ns EXCEPT !.path = t, !.npos = 1])
                    ELSE IncludeParseFrom(args, i + 1, [ns EXCEPT !.extra = TRUE])

include_parser(args) == IncludeParseFrom(args, 1, IncludeDefaults)

----------------------------------------------------------------------------
(* Snarl._blocks: a dict, which keeps its keys in the order they were first *)
(* inserted; an entry is [label, config, fd], fd = [lines, pos]             *)

DictKeys(d) == [i \in 1..Len(d) |-> d[i].label]

DictHas(d, k) == \E i \in 1..Len(d) : d[i].label = k

DictIndex(d, k) == CHOOSE i \in 1..Len(d) : d[i].label = k

DictGet(d, k) == d[DictIndex(d, k)]

\* d[k] = v: an existing key keeps its place, a new key goes last
DictSet(d, k, v) ==
    IF DictHas(d, k) THEN [d EXCEPT ![DictIndex(d, k)] = v] ELSE Append(d, v)

\* tempfile.SpooledTemporaryFile(mode='w'): empty, at position 0
NewFd == [lines |-> <<>>, pos |-> 0]

\* fd.write(line): at the stream position, over what was there
FdWrite(fd, line) ==
    [lines |-> SubSeq(fd.lines, 1, fd.pos) \o <<line>>
                 \o SubSeq(fd.lines, fd.pos + 2, Len(fd.lines)),
     pos |-> fd.pos + 1]

\* fd.seek(0)
FdSeek0(fd) == [fd EXCEPT !.pos = 0]

\* for line in fd, to the end: the lines from the position on
FdReadAll(fd) == SubSeq(fd.lines, fd.pos + 1, Len(fd.lines))

\* faulty variant: the stream is left rewound after it was read
FdAtEndMut(fd) == [fd EXCEPT !.pos = 0]

\* the position after for line in fd has run to the end
FdAtEnd(fd) == [fd EXCEPT !.pos = Len(fd.lines)]

\* faulty variant: a line read is taken out of the stream
FdAdvanceMut(fd) == [lines |-> Tail(fd.lines), pos |-> 0]

\* the position after one line has been read
FdAdvance(fd) == [fd EXCEPT !.pos = @ + 1]

\* block['fd'] of the block under k read or written: the dict itself is
\* not assigned to
SetFd(d, k, fd) == [d EXCEPT ![DictIndex(d, k)].fd = fd]

----------------------------------------------------------------------------
(* Snarl.parse and what it calls *)

RootPath == "main"

Top == frames[Len(frames)]

\* the lines the frame iterates: the file's, through html_escaper when the
\* include asked for --escape-html
FrameLines(f) == IF f.escape THEN html_escaper(fs[f.path]) ELSE fs[f.path]

Looping == phase = "parsing" /\ frames # <<>> /\ Top.pc = "loop"

HasLine == Looping /\ Top.ln < Len(FrameLines(Top))

CurLine == FrameLines(Top)[Top.ln + 1]

\* the frames with the top one having consumed its line, in state s
Consumed(s) ==
    [frames EXCEPT ![Len(frames)] = [@ EXCEPT !.ln = @ + 1, !.state = s]]

\* parse, lines 162-163: ctx.ln and ctx.line follow the line just read
CtxAt(block) == [ln |-> Top.ln + 1, line |-> CurLine, block |-> block]

\* an exception leaves every active call of parse
Raise(type, arg) ==
    /\ frames' = <<>>
    /\ phase' = "failed"
    /\ err' = [type |-> type, arg |-> arg]

AutoLabel(n) == "__autoblock" \o ToString(n)

\* parse_args has failed: ArgumentParser.error (lines 40-42) raises
\* BlockArgumentError; the help action of argparse exits the process
ArgumentError(ns) ==
    IF ns.help THEN Raise("SystemExit", 0) ELSE Raise("BlockArgumentError", 0)

\* faulty variant: a call of parse starts out capturing
EntryStateMut == READ_CODEBLOCK

\* parse, line 155: state = STATE.INIT
EntryState == INIT

\* the caller's call of parse(infd): depth = 0
StartParse ==
    /\ phase = "init"
    /\ phase' = "parsing"
    /\ frames' = <<[path |-> RootPath, escape |-> FALSE, ln |-> 0,
                    state |-> EntryState, depth |-> 0, pc |-> "enter",
                    id |-> hist.calls + 1]>>
    /\ hist' = [hist EXCEPT !.calls = @ + 1]
    /\ UNCHANGED <<fs, it2, ignore_missing, _blocks, blocknum, ctx, outfd, err,
                   it, listing>>

\* faulty variant: the ceiling itself is let through
TooDeepMut(depth) == depth > MAX_INCLUDE_DEPTH

\* parse, line 158: the include depth has reached the ceiling
TooDeep(depth) == depth >= MAX_INCLUDE_DEPTH

\* faulty variant: at the ceiling the call returns to the including file
RecursiveIncludeQuiet(depth) ==
    /\ frames' = SubSeq(frames, 1, Len(frames) - 1)
    /\ UNCHANGED <<phase, err>>

\* parse, line 159: raise RecursiveIncludeError(depth)
RecursiveInclude(depth) == Raise("RecursiveIncludeError", depth)

\* parse, lines 155-159: the depth check on entry
ParseEnter ==
    /\ phase = "parsing" /\ frames # <<>> /\ Top.pc = "enter"
    /\ IF TooDeep(Top.depth)
       THEN RecursiveInclude(Top.depth)
       ELSE /\ frames' = [frames EXCEPT ![Len(frames)].pc = "loop"]
            /\ UNCHANGED <<phase, err>>
    /\ UNCHANGED <<fs, it2, ignore_missing, _blocks, blocknum, ctx, outfd, it,
                   listing, hist>>

\* new_block: a fresh fd under the label, in the label's place if it has one
new_block(d, config) ==
    DictSet(d, config.label, [label |-> config.label, config |-> config,
                              fd |-> NewFd])

\* process_line, lines 139-142, with start_codeblock
StartCodeblock ==
    /\ HasLine /\ Top.state = INIT
    /\ re_start_codeblock(CurLine).matched
    /\ LET m == re_start_codeblock(CurLine)
           args == IF m.lang # None THEN m.args \o <<"--lang", m.lang>>
                   ELSE m.args
           ns == block_parser(args)
           anon == ns.label = None
           label == IF anon THEN AutoLabel(blocknum) ELSE ns.label
           config == [ns EXCEPT !.label = label]
       IN  IF ~ns.ok
           THEN /\ ArgumentError(ns)
                /\ ctx' = CtxAt(ctx.block)
                /\ UNCHANGED <<_blocks, blocknum, hist>>
           ELSE /\ blocknum' = IF anon THEN blocknum + 1 ELSE blocknum
                /\ IF m.append /\ ~DictHas(_blocks, label)
                   THEN /\ Raise("KeyError", 0)
                        /\ ctx' = CtxAt(ctx.block)
                        /\ UNCHANGED <<_blocks, hist>>
                   ELSE /\ frames' = Consumed(READ_CODEBLOCK)
                        /\ ctx' = CtxAt(label)
                        /\ _blocks' = IF m.append THEN _blocks
                                      ELSE new_block(_blocks, config)
                        /\ hist' = [hist EXCEPT
                              !.captured = IF m.append THEN @
                                           ELSE (label :> <<>>) @@ @,
                              !.first = IF label \in SeqSet(@) THEN @
                                        ELSE Append(@, label),
                              !.hidden = IF m.append THEN @
                                         ELSE IF ns.hide THEN @ \cup {label}
                                         ELSE @ \ {label},
                              !.opened = [ns |-> ns, id |-> Top.id]]
                        /\ UNCHANGED <<phase, err>>
    /\ UNCHANGED <<fs, it2, ignore_missing, outfd, it, listing>>

\* faulty variant: every included file is parsed
VerbatimMut(ns) == FALSE

\* include_file, line 124: if parsed_args.verbatim
Verbatim(ns) == ns.verbatim

\* faulty variant: a missing file is never an error
IgnoreMissingMut == TRUE

\* include_file, line 129: if self.ignore_missing
IgnoreMissing == ignore_missing

\* process_line, lines 144-147, with include_file and include_verbatim
IncludeFile ==
    /\ HasLine /\ Top.state = INIT
    /\ ~re_start_codeblock(CurLine).matched
    /\ re_include_file(CurLine).matched
    /\ LET ns == include_parser(re_include_file(CurLine).args)
       IN  /\ ctx' = CtxAt(ctx.block)
           /\ IF ~ns.ok
              THEN /\ ArgumentError(ns)
                   /\ UNCHANGED <<outfd, hist>>
              ELSE IF ns.path \notin DOMAIN fs
              THEN /\ IF IgnoreMissing
                      THEN /\ frames' = Consumed(INIT)
                           /\ UNCHANGED <<phase, err>>
                      ELSE Raise("FileNotFoundError", 0)
                   /\ UNCHANGED <<outfd, hist>>
              ELSE IF Verbatim(ns)
              THEN /\ frames' = Consumed(INIT)
                   /\ outfd' = outfd \o
                        (IF ns.escape_html THEN html_escaper(fs[ns.path])
                         ELSE fs[ns.path])
                   /\ UNCHANGED <<phase, err, hist>>
              ELSE /\ frames' = Append(Consumed(INIT),
                        [path |-> ns.path, escape |-> ns.escape_html,
                         ln |-> 0, state |-> EntryState, depth |-> Top.depth + 1,
                         pc |-> "enter", id |-> hist.calls + 1])
                   /\ hist' = [hist EXCEPT
                        !.calls = @ + 1,
                        !.cycle = @ \/ \E i \in 1..Len(frames) :
                                          frames[i].path = ns.path,
                        !.plaincycle = @ \/
                            (/\ ~ns.escape_html
                             /\ \E i \in 1..Len(frames) :
                                   frames[i].path = ns.path)]
                   /\ UNCHANGED <<phase, err, outfd>>
    /\ UNCHANGED <<fs, it2, ignore_missing, _blocks, blocknum, it, listing>>

\* process_line, line 149, and parse, lines 177-178: any other line in INIT
ProseLine ==
    /\ HasLine /\ Top.state = INIT
    /\ ~re_start_codeblock(CurLine).matched
    /\ ~re_include_file(CurLine).matched
    /\ frames' = Consumed(INIT)
    /\ ctx' = CtxAt(ctx.block)
    /\ outfd' = Append(outfd, CurLine)
    /\ UNCHANGED <<fs, it2, ignore_missing, _blocks, blocknum, phase, err, it,
                   listing, hist>>

\* write_codeblock: the fence with the language, the block's lines from the
\* start (escaped under escape_html), the closing fence
write_codeblock(block) ==
    LET lang == block.config.lang
        body == FdReadAll(FdSeek0(block.fd))
    IN  <<(IF lang # None THEN <<FENCE, lang>> ELSE <<FENCE>>)>>
        \o (IF block.config.escape_html THEN html_escaper(body) ELSE body)
        \o <<(<<FENCE>>)>>

\* faulty variant: every block is written out
HiddenMut(block) == FALSE

\* parse, line 187: the block is kept out of the Output Sink
Hidden(block) == block.config.hide

\* parse, lines 182-190: the closing fence
EndCodeblock ==
    /\ HasLine /\ Top.state = READ_CODEBLOCK
    /\ re_end_codeblock(CurLine)
    /\ LET block == DictGet(_blocks, ctx.block)
       IN  IF ~Hidden(block)
           THEN /\ outfd' = outfd \o write_codeblock(block)
                /\ _blocks' = SetFd(_blocks, ctx.block, FdAtEnd(block.fd))
           ELSE UNCHANGED <<outfd, _blocks>>
    /\ frames' = Consumed(INIT)
    /\ ctx' = CtxAt(ctx.block)
    /\ UNCHANGED <<fs, it2, ignore_missing, blocknum, phase, err, it, listing,
                   hist>>

\* faulty variant: a reference line is taken out rather than stored
CaptureWriteMut(fd, line) ==
    IF re_include_block(line).matched THEN fd ELSE FdWrite(fd, line)

\* parse, line 192: self.ctx.block['fd'].write(line)
CaptureWrite(fd, line) == FdWrite(fd, line)

\* parse, line 192: any other line while reading a code block
CaptureLine ==
    /\ HasLine /\ Top.state = READ_CODEBLOCK
    /\ ~re_end_codeblock(CurLine)
    /\ LET block == DictGet(_blocks, ctx.block)
       IN  _blocks' = SetFd(_blocks, ctx.block, CaptureWrite(block.fd, CurLine))
    /\ frames' = Consumed(READ_CODEBLOCK)
    /\ ctx' = CtxAt(ctx.block)
    /\ hist' = [hist EXCEPT !.captured[ctx.block] = Append(@, CurLine)]
    /\ UNCHANGED <<fs, it2, ignore_missing, blocknum, outfd, phase, err, it,
                   listing>>

\* faulty variant: the end of the input is never an error
UnterminatedMut(state) == FALSE

\* parse, line 194: the input ended inside a code block
Unterminated(state) == state # INIT

\* faulty variant: the end of an included file ends every call of parse
PopFrameMut(stack) == <<>>

\* parse returns (line 195 passed): the call leaves the stack, and the
\* including call, if any, is the innermost again
PopFrame(stack) == SubSeq(stack, 1, Len(stack) - 1)

\* parse, lines 194-195: the input of the frame has ended
EndOfInput ==
    /\ Looping /\ ~HasLine
    /\ IF Unterminated(Top.state)
       THEN Raise("UnexpectedEOFError", 0)
       ELSE /\ frames' = PopFrame(frames)
            /\ phase' = IF Len(frames) = 1 THEN "done" ELSE phase
            /\ UNCHANGED err
    /\ UNCHANGED <<fs, it2, ignore_missing, _blocks, blocknum, ctx, outfd, it,
                   listing, hist>>

----------------------------------------------------------------------------
(* Snarl.generate: a generator per block, nested by yield from.  A         *)
(* generator keeps no position of its own: it reads block['fd'].           *)

\* re.sub(pat, sub, line), on tokens
re_sub(pat, sub, line) ==
    [i \in 1..Len(line) |-> IF line[i] = pat THEN sub ELSE line[i]]

\* faulty variant: the pairs applied last to first
RECURSIVE ApplyReplaceMut(_, _)
ApplyReplaceMut(replace, line) ==
    IF replace = <<>> THEN line
    ELSE re_sub(Head(replace)[1], Head(replace)[2],
                ApplyReplaceMut(Tail(replace), line))

\* _generate_block, lines 221-223: the pairs applied in the order declared
RECURSIVE ApplyReplace(_, _)
ApplyReplace(replace, line) ==
    IF replace = <<>> THEN line
    ELSE ApplyReplace(Tail(replace),
                      re_sub(Head(replace)[1], Head(replace)[2], line))

Idle ==
    [status |-> "none", label |-> None, stack |-> <<>>, out |-> <<>>,
     seen |-> [l \in {} |-> <<>>]]

NoListing == [kind |-> "none", tags |-> <<>>, value |-> <<>>]

\* faulty variant: the generator reads on from where the stream was left
GenSeekMut(fd) == fd

\* what fd.seek(0) at the start of _generate_block does to the block's fd
GenSeek(fd) == FdSeek0(fd)

\* faulty variant: a reference is resolved in a verbatim block too
IncludesBlockMut(m, config) == m.matched

\* _generate_block, line 217: if match and not block['config'].verbatim
IncludesBlock(m, config) == m.matched /\ ~config.verbatim

\* one next() of the outermost generator: the generators run until one of
\* them yields a line, the outermost returns, or an exception leaves them
RECURSIVE GenNext(_, _)
GenNext(stack, d) ==
    IF stack = <<>> THEN [status |-> "done", stack |-> stack, d |-> d, line |-> <<>>]
    ELSE LET n == Len(stack)
             g == stack[n]
             b0 == DictGet(d, g.label)
             b1 == IF g.started THEN b0 ELSE [b0 EXCEPT !.fd = GenSeek(@)]
             stack1 == [stack EXCEPT ![n].started = TRUE]
         IN  IF b1.fd.pos >= Len(b1.fd.lines)
             THEN GenNext(SubSeq(stack1, 1, n - 1), SetFd(d, g.label, b1.fd))
             ELSE LET line == b1.fd.lines[b1.fd.pos + 1]
                      d2 == SetFd(d, g.label, FdAdvance(b1.fd))
                      m == re_include_block(line)
                  IN  IF IncludesBlock(m, b1.config)
                      THEN IF ~DictHas(d2, m.label)
                           THEN [status |-> "KeyError", stack |-> <<>>,
                                 d |-> d2, line |-> <<>>]
                           ELSE IF n >= MaxGenDepth
                           THEN [status |-> "RecursionError", stack |-> <<>>,
                                 d |-> d2, line |-> <<>>]
                           ELSE GenNext(Append(stack1, [label |-> m.label,
                                                        started |-> FALSE]), d2)
                      ELSE [status |-> "active", stack |-> stack1, d |-> d2,
                            line |-> ApplyReplace(b1.config.replace, line)]

\* the labels a caller asks for: those of the store and one that is not
QueryLabels == SeqSet(DictKeys(_blocks)) \cup {"Z"}

\* generate(label), lines 226-227; the caller (tangle, lines 292-311) has
\* consumed the iterator before it asks for the next
Generate ==
    /\ phase = "done" /\ it.status # "active"
    /\ \E label \in QueryLabels :
          it' = IF DictHas(_blocks, label)
                THEN [status |-> "active", label |-> label,
                      stack |-> <<[label |-> label, started |-> FALSE]>>,
                      out |-> <<>>, seen |-> it.seen]
                ELSE [status |-> "KeyError", label |-> label,
                      stack |-> <<>>, out |-> <<>>, seen |-> it.seen]
    /\ listing' = NoListing
    /\ UNCHANGED <<fs, it2, ignore_missing, frames, _blocks, blocknum, ctx, outfd,
                   phase, err, hist>>

\* next() on the caller's iterator
IterNext ==
    /\ phase = "done" /\ it.status = "active"
    /\ LET r == GenNext(it.stack, _blocks)
       IN  /\ it' = [it EXCEPT !.status = r.status, !.stack = r.stack,
                               !.out = IF r.status = "active"
                                       THEN Append(@, r.line) ELSE @,
                               !.seen = IF r.status = "done"
                                           /\ it.label \notin DOMAIN @
                                        THEN (it.label :> it.out) @@ @
                                        ELSE @]
           /\ _blocks' = r.d
    /\ UNCHANGED <<fs, it2, ignore_missing, frames, blocknum, ctx, outfd, phase,
                   err, listing, hist>>

\* faulty variant: every tag of the filter is asked for
TagMatchMut(config, tags) ==
    \A i \in 1..Len(tags) : tags[i] \in SeqSet(config.tag)

\* the filter of blocks() and files(): not tags or any(t in config.tag ...)
TagMatch(config, tags) ==
    tags = <<>> \/ \E i \in 1..Len(tags) : tags[i] \in SeqSet(config.tag)

blocks(tags) ==
    DictKeys(SelectSeq(_blocks, LAMBDA e : TagMatch(e.config, tags)))

files(tags) ==
    DictKeys(SelectSeq(_blocks,
                       LAMBDA e : e.config.file /\ TagMatch(e.config, tags)))

TagFilters == {<<>>, <<"foo">>, <<"bar">>, <<"foo", "bar">>}

\* the caller lists the blocks or the files (the files command)
ListBlocks ==
    /\ phase = "done"
    /\ \E tags \in TagFilters, kind \in {"blocks", "files"} :
          listing' = [kind |-> kind, tags |-> tags,
                      value |-> IF kind = "blocks" THEN blocks(tags)
                                ELSE files(tags)]
    /\ it' = Idle
    /\ UNCHANGED <<fs, it2, ignore_missing, frames, _blocks, blocknum, ctx, outfd,
                   phase, err, hist>>

----------------------------------------------------------------------------
(* The documents the model parses *)

Open(label, flags) == <<FENCE, "=", label>> \o flags

Reopen(label, flags) == <<FENCE, "+", "=", label>> \o flags

Include(path, flags) == <<"<!--", "include", path>> \o flags \o <<"-->">>

Ref(label) == <<"<<", label, ">>">>

Block(open, body) == <<open>> \o body \o <<(<<FENCE>>)>>

\* the documents of at most MaxChunks chunks of an alphabet
Docs(chunks) ==
    {Flatten(cs) : cs \in UNION {[1..n -> chunks] : n \in 0..MaxChunks}}

\* a line of one word
Word(w) == <<w>>

\* chunks of a document that includes nothing
ChunksB ==
    { Block(Open("A", <<>>), <<Word("a")>>),
      Block(Open("A", <<"--replace", "a", "b", "-r", "b", "c", "-t", "foo">>),
            <<Word("a"), Word("b")>>),
      Block(Open("B", <<"--file", "-t", "bar", "-t", "foo", "--replace", "a", "q">>),
            <<Ref("A"), Word("a")>>),
      Block(Open("B", <<"--verbatim", "--hide">>), <<Ref("A"), Word("b")>>),
      Block(Open("B", <<"--file">>), <<Ref("A")>>),
      Block(<<FENCE, "py", "=", "A", "--escape-html", "-f">>,
            <<Ref("B"), Word("<b>")>>),
      Block(Reopen("A", <<"--hide">>), <<Word("b")>>),
      Block(Reopen("B", <<>>), <<Word("c")>>),
      Block(<<FENCE, "py">>, <<Word("a")>>),
      <<(<<FENCE>>)>>,
      <<Open("A", <<"-t", "bar">>)>>,
      <<Open("A", <<"--unknown">>)>>,
      <<Word("a")>> }

\* chunks of a document that includes files
ChunksM ==
    { <<Include("inc", <<>>)>>,
      <<Include("inc", <<"-v">>)>>,
      <<Include("inc", <<"--escape-html">>)>>,
      <<Include("missing", <<>>)>>,
      <<Include(RootPath, <<>>)>>,
      <<Include(RootPath, <<"-e">>)>>,
      <<Include("inc", <<"--unknown">>)>>,
      Block(Open("A", <<>>), <<Word("a")>>),
      Block(Open("__autoblock0", <<>>), <<Word("c")>>),
      Block(Reopen("B", <<>>), <<Ref("A")>>),
      <<Open("A", <<"-H">>)>>,
      <<Word("p")>> }

\* what the file "inc" may hold
IncDocs ==
    { <<Word("p")>>,
      Block(Open("B", <<"-f">>), <<Word("b"), Ref("A")>>)
          \o Block(Open("A", <<"-t", "foo">>), <<Word("<b>")>>)
          \o Block(Open("C", <<>>), <<Ref("B"), Word("c")>>),
      <<Word("p"), Open("B", <<>>), Word("b")>>,
      <<Include(RootPath, <<>>)>>,
      <<Word("p"), Include("inc", <<>>)>>,
      <<Include("inc", <<"-e">>), Word("p")>>,
      Block(<<FENCE, "+", "=", "-H">>, <<Word("a")>>) \o <<Include("inc", <<>>)>>,
      Block(Reopen("A", <<>>), <<Word("b")>>)
          \o Block(Reopen("A", <<>>), <<Word("c")>>)
          \o <<Include("missing", <<"-v">>)>>,
      <<(<<FENCE>>)>> }

\* documents whose directives have malformed arguments: an option short of
\* its arguments, a second positional, no path, and -h
ArgDocs ==
    { Block(Open("A", <<>>), <<Word("a")>>)
          \o <<Open("A", <<"--replace", "a">>)>>,
      Block(<<FENCE, "py">>, <<Word("a")>>) \o <<(<<FENCE, "=", "-t">>)>>,
      Block(Open("A", <<>>), <<Word("a")>>) \o <<Open("A", <<"B">>)>>,
      <<Word("p"), <<"<!--", "include", "-v", "-->">>>>,
      <<Word("p"), Include("inc", <<RootPath>>)>>,
      Block(Open("A", <<>>), <<Word("a")>>)
          \o <<Reopen("A", <<"--lang">>)>>,
      <<Open("A", <<"--replace", "a", "-h">>)>>,
      <<Open("A", <<"--unknown", "-h">>)>>,
      Block(Open("A", <<>>), <<Word("a")>>) \o <<Open("A", <<"-h">>)>>,
      <<Word("p"), Include("inc", <<"--help">>)>> }

\* documents with lines that begin with a doubled character
EscDocs ==
    { <<(<<BackslashFence, "=", "A">>), Word("p")>>,
      <<(<<DoubledComment, "include", "inc", "-->">>), Word("p")>>,
      <<(<<DoubledFence, "=", "A">>), Word("a"), (<<FENCE>>), Word("p")>> }

\* documents with a block whose lines look like directives
CaptureDocs ==
    { Block(Open("A", <<>>),
            <<Open("B", <<>>), Include("inc", <<>>), Ref("B"), Word("a")>>)
          \o <<Word("p")>>,
      Block(Open("A", <<"--escape-html">>),
            <<Reopen("B", <<>>), Include("inc", <<"-v">>), Ref("A")>>) }

ChainPath(i) == "c" \o ToString(i)

\* a chain of n files under the document, each including the next
ChainFs(n) ==
    [p \in {RootPath} \cup {ChainPath(i) : i \in 1..n} |->
        LET k == IF p = RootPath THEN 0
                 ELSE CHOOSE i \in 1..n : ChainPath(i) = p
        IN  IF k < n THEN <<Include(ChainPath(k + 1), <<>>), Word("p")>>
            ELSE <<Word("p")>>]

FileSystems ==
    {(RootPath :> d) : d \in Docs(ChunksB)}
    \cup {(RootPath :> d) @@ ("inc" :> i) : d \in Docs(ChunksM), i \in IncDocs}
    \cup {ChainFs(n) : n \in 0..MaxChain}
    \cup {(RootPath :> d) : d \in ArgDocs}
    \cup {(RootPath :> d) @@ ("inc" :> <<Word("b")>>) : d \in EscDocs}
    \cup {(RootPath :> d) @@ ("inc" :> <<Word("b")>>) : d \in CaptureDocs}
    \cup {(RootPath :> <<Word("p"), Include("inc", <<"-v", "-e">>), Word("p")>>)
             @@ ("inc" :> i) : i \in IncDocs}
    \cup {(RootPath :> <<Include(RootPath, <<"-v">>), Word("p")>>)}
    \cup {(RootPath :> <<Include("inc", <<>>), Word("p")>>)
             @@ ("inc" :> <<Word("p")>> \o d) : d \in ArgDocs}

\* whether some file names the file that does not exist
UsesMissing(f) ==
    \E p \in DOMAIN f : \E i \in 1..Len(f[p]) :
        f[p][i] \in {Include("missing", <<>>), Include("missing", <<"-v">>)}

Init ==
    /\ fs \in FileSystems
    /\ ignore_missing \in (IF UsesMissing(fs) THEN BOOLEAN ELSE {FALSE})
    /\ frames = <<>>
    /\ _blocks = <<>>
    /\ blocknum = 0
    /\ ctx = [ln |-> 0, line |-> <<>>, block |-> None]
    /\ outfd = <<>>
    /\ phase = "init"
    /\ err = NoError
    /\ it = Idle
    /\ it2 = Idle
    /\ listing = NoListing
    /\ hist = [captured |-> [l \in {} |-> <<>>], first |-> <<>>,
               opened |-> [ns |-> BlockDefaults, id |-> 0], hidden |-> {},
               calls |-> 0, cycle |-> FALSE, plaincycle |-> FALSE]

Next ==
    \/ StartParse
    \/ ParseEnter
    \/ StartCodeblock
    \/ IncludeFile
    \/ ProseLine
    \/ EndCodeblock
    \/ CaptureLine
    \/ EndOfInput
    \/ Generate
    \/ IterNext
    \/ ListBlocks

Spec == Init /\ [][Next]_vars

\* the call of parse alone, which runs on until it returns or raises
ParseStep ==
    \/ StartParse
    \/ ParseEnter
    \/ StartCodeblock
    \/ IncludeFile
    \/ ProseLine
    \/ EndCodeblock
    \/ CaptureLine
    \/ EndOfInput

ParseSpec == Init /\ [][ParseStep]_vars /\ WF_vars(ParseStep)

\* generate(label), lines 226-227, called twice before either iterator is
\* stepped: a generator does nothing until its first next()
GeneratePair ==
    /\ phase = "done" /\ it.status = "none" /\ it2.status = "none"
    /\ \E l1 \in SeqSet(DictKeys(_blocks)), l2 \in SeqSet(DictKeys(_blocks)) :
          /\ it' = [status |-> "active", label |-> l1,
                    stack |-> <<[label |-> l1, started |-> FALSE]>>,
                    out |-> <<>>, seen |-> it.seen]
          /\ it2' = [status |-> "active", label |-> l2,
                     stack |-> <<[label |-> l2, started |-> FALSE]>>,
                     out |-> <<>>, seen |-> it2.seen]
    /\ UNCHANGED <<fs, ignore_missing, frames, _blocks, blocknum, ctx, outfd,
                   phase, err, listing, hist>>

\* next() on the second iterator: its generators read the same block['fd']
IterNext2 ==
    /\ phase = "done" /\ it2.status = "active"
    /\ LET r == GenNext(it2.stack, _blocks)
       IN  /\ it2' = [it2 EXCEPT !.status = r.status, !.stack = r.stack,
                                 !.out = IF r.status = "active"
                                         THEN Append(@, r.line) ELSE @]
           /\ _blocks' = r.d
    /\ UNCHANGED <<fs, ignore_missing, frames, blocknum, ctx, outfd, phase,
                   err, it, listing, hist>>

\* the documents of two chunks, and a document that includes a file
IterFileSystems ==
    {(RootPath :> Flatten(<<c1, c2>>)) : c1 \in ChunksB, c2 \in ChunksB}
    \cup {(RootPath :> <<Include("inc", <<>>)>>) @@ ("inc" :> d) : d \in IncDocs}

InitIter == Init /\ fs \in IterFileSystems

\* a caller of the library that holds two iterators and steps them in any
\* order
NextIter ==
    \/ StartParse
    \/ ParseEnter
    \/ StartCodeblock
    \/ IncludeFile
    \/ ProseLine
    \/ EndCodeblock
    \/ CaptureLine
    \/ EndOfInput
    \/ GeneratePair
    \/ IterNext
    \/ IterNext2

IterSpec == InitIter /\ [][NextIter]_vars

----------------------------------------------------------------------------
(* The claims *)

ParseEnded == phase \in {"done", "failed"}

\* C1: the top-level parse runs at depth 0 and every nested parse one deeper
\* than the parse that included it; a parse entered at depth 10 consumes no
\* line and raises RecursiveIncludeError carrying 10, and a chain of includes
\* whose deepest file is parsed at depth 9 raises no error.
C1_IncludeDepth ==
    /\ \A i \in 1..Len(frames) :
          /\ frames[i].depth = i - 1
          /\ frames[i].depth >= MAX_INCLUDE_DEPTH =>
                /\ i = Len(frames)
                /\ frames[i].pc = "enter"
                /\ frames[i].ln = 0
    /\ err.type = "RecursiveIncludeError" => err.arg = MAX_INCLUDE_DEPTH
    /\ \A n \in 0..(MAX_INCLUDE_DEPTH - 1) : fs = ChainFs(n) => err.type = "none"

\* the chain of nine includes has been parsed to the end
C1_Witness ==
    /\ phase = "done"
    /\ fs = ChainFs(MAX_INCLUDE_DEPTH - 1)
    /\ Len(outfd) = MAX_INCLUDE_DEPTH

FrameRank(f) ==
    IF f.pc = "enter" THEN Len(FrameLines(f)) + 2
    ELSE Len(FrameLines(f)) - f.ln + 1

\* one component per include depth, 0 where no call is active
Rank ==
    [d \in 0..MAX_INCLUDE_DEPTH |->
        IF d < Len(frames) THEN FrameRank(frames[d + 1]) ELSE 0]

\* the lexicographic order, well-founded on vectors of this fixed length
LexLess(a, b) ==
    \E d \in 0..MAX_INCLUDE_DEPTH :
        /\ a[d] < b[d]
        /\ \A e \in 0..(d - 1) : a[e] = b[e]

ParseTerminates == <>ParseEnded

Stored(label) == DictGet(_blocks, label).fd.lines

Config(label) == DictGet(_blocks, label).config

\* generate has nothing to expand or substitute in the block
PlainBlock(label) ==
    /\ Config(label).replace = <<>>
    /\ \/ Config(label).verbatim
       \/ \A i \in 1..Len(Stored(label)) :
             ~re_include_block(Stored(label)[i]).matched

\* C3: the lines stored under a label are at every moment the lines captured
\* by its creating directive followed by those captured by each append, in
\* the order read (hist.captured), and after parsing generate(label) of a
\* block without references and replacements yields exactly these lines
C3_AppendOrder ==
    /\ DOMAIN hist.captured = SeqSet(DictKeys(_blocks))
    /\ \A label \in DOMAIN hist.captured :
          Stored(label) = hist.captured[label]
    /\ it.status = "done" /\ PlainBlock(it.label) =>
          it.out = hist.captured[it.label]

\* A created with a, then appended to twice in an included file
C3_Witness ==
    /\ fs[RootPath] = Block(Open("A", <<>>), <<Word("a")>>)
                        \o <<Include("inc", <<>>)>>
    /\ it.status = "done" /\ it.label = "A"
    /\ it.out = <<Word("a"), Word("b"), Word("c")>>


\* the output of generate(label) as the claim describes it: the stored
\* lines in order, a reference line of a block that is not verbatim replaced
\* by the expansion of the label it names, any other line under the
\* block's own replacements; fuel bounds the nesting
RECURSIVE Expansion(_, _)
Expansion(label, fuel) ==
    Flatten([i \in 1..Len(Stored(label)) |->
        LET line == Stored(label)[i]
            m == re_include_block(line)
        IN  IF m.matched /\ ~Config(label).verbatim
            THEN IF fuel = 0 \/ ~DictHas(_blocks, m.label) THEN <<>>
                 ELSE Expansion(m.label, fuel - 1)
            ELSE <<ApplyReplace(Config(label).replace, line)>>])

IsReference(line) == re_include_block(line).matched

\* C4: a generate(label) that ran to its end has yielded the expansion of the
\* block: every reference line of a block that is not verbatim replaced, in
\* its place, by the expansion of the block it names, and a verbatim block's
\* lines as they are stored.  A reference line is yielded only out of a
\* verbatim block.  A block with the file flag is listed by files(), and one
\* whose body is a single reference generates what the named block does.
C4_Expansion ==
    /\ it.status = "done" =>
          /\ it.out = Expansion(it.label, MaxGenDepth)
          /\ Config(it.label).verbatim /\ Config(it.label).replace = <<>> =>
                it.out = Stored(it.label)
          /\ (\E i \in 1..Len(it.out) : IsReference(it.out[i])) =>
                \E k \in 1..Len(_blocks) : _blocks[k].config.verbatim
          /\ \A x \in SeqSet(DictKeys(_blocks)) :
                Stored(it.label) = <<Ref(x)>> /\ ~Config(it.label).verbatim =>
                    it.out = Expansion(x, MaxGenDepth)
    /\ listing.kind = "files" /\ listing.tags = <<>> =>
          \A k \in 1..Len(_blocks) :
              _blocks[k].config.file => _blocks[k].label \in SeqSet(listing.value)

\* the file block B whose body is <<A>> has generated A's content
C4_Witness ==
    /\ fs[RootPath] = Block(Open("A", <<>>), <<Word("a")>>)
                        \o Block(Open("B", <<"--file">>), <<Ref("A")>>)
    /\ it.status = "done" /\ it.label = "B"
    /\ it.out = <<Word("a")>>
    /\ it.out = Expansion("A", MaxGenDepth)


\* the line about to be read closes the block being captured
Closing == HasLine /\ Top.state = READ_CODEBLOCK /\ re_end_codeblock(CurLine)

\* C5 as stated: closing a capture whose opening directive (creating or
\* appending) carried the hide flag writes nothing to the Output Sink
C5_Original ==
    [][Closing /\ hist.opened.ns.hide => outfd' = outfd]_vars

\* C5, amended: hide is a property of the block, set by the directive that
\* created it; the flags of an append directive are ignored.  Closing a
\* capture of a block created with hide (hist.hidden), the creating capture
\* or a later append, writes nothing to the Output Sink and leaves the store
\* alone; closing a capture of any other block writes the block, whatever
\* the flags of the append.  The hidden block's lines stay stored under its
\* label, and generate yields them.
C5_HiddenBlock ==
    /\ [](\A label \in hist.hidden :
             /\ DictHas(_blocks, label)
             /\ Config(label).hide
             /\ Stored(label) = hist.captured[label])
    /\ [][Closing =>
             IF ctx.block \in hist.hidden
             THEN outfd' = outfd /\ _blocks' = _blocks
             ELSE outfd' = outfd \o write_codeblock(DictGet(_blocks, ctx.block))]_vars
    /\ [](it.status = "done" /\ it.label \in hist.hidden =>
             it.out = Expansion(it.label, MaxGenDepth))

\* the hidden verbatim block B was parsed, the Output Sink holds nothing of
\* it, and generate has yielded its two lines
C5_Witness ==
    /\ fs[RootPath] = Block(Open("B", <<"--verbatim", "--hide">>),
                            <<Ref("A"), Word("b")>>)
    /\ outfd = <<>>
    /\ it.status = "done" /\ it.label = "B" /\ it.label \in hist.hidden
    /\ it.out = <<Ref("A"), Word("b")>>


\* the store without the stream positions: labels, configurations, lines
Content(d) ==
    [i \in 1..Len(d) |->
        [label |-> d[i].label, config |-> d[i].config, lines |-> d[i].fd.lines]]

\* C6: once parsing is complete no step changes a block's label,
\* configuration or stored lines, and a generate(label) that runs to its end
\* yields the lines the first completed generate(label) yielded (it.seen)
C6_Repeatable ==
    [][phase = "done" =>
          /\ Content(_blocks') = Content(_blocks)
          /\ outfd' = outfd
          /\ it'.status = "done" /\ it'.label \in DOMAIN it.seen =>
                it'.out = it.seen[it'.label]]_vars

\* a later generate of a label generated before has yielded the same lines
\* again and is about to end
C6_Witness ==
    /\ it.status = "active"
    /\ it.label \in DOMAIN it.seen
    /\ Len(it.out) >= 2
    /\ it.out = it.seen[it.label]
    /\ \E label \in DOMAIN it.seen : label # it.label


\* a token taken through the pairs from the i-th on, in declaration order
RECURSIVE SubToken(_, _, _)
SubToken(t, replace, i) ==
    IF i > Len(replace) THEN t
    ELSE SubToken(IF t = replace[i][1] THEN replace[i][2] ELSE t,
                  replace, i + 1)

Substituted(replace, line) ==
    [k \in 1..Len(line) |-> SubToken(line[k], replace, 1)]

\* the raw lines generate(label) yields, each with the block that owns it
RECURSIVE Origins(_, _)
Origins(label, fuel) ==
    Flatten([i \in 1..Len(hist.captured[label]) |->
        LET line == hist.captured[label][i]
        IN  IF IsReference(line) /\ ~Config(label).verbatim
            THEN IF fuel = 0 \/ ~DictHas(_blocks, re_include_block(line).label)
                 THEN <<>>
                 ELSE Origins(re_include_block(line).label, fuel - 1)
            ELSE <<[owner |-> label, line |-> line]>>])

\* what write_codeblock is to put into the Output Sink: the captured lines
\* as they were read, escaped under escape_html, between the fences
RawRendering(label) ==
    <<(IF Config(label).lang # None THEN <<FENCE, Config(label).lang>>
       ELSE <<FENCE>>)>>
    \o (IF Config(label).escape_html THEN html_escaper(hist.captured[label])
        ELSE hist.captured[label])
    \o <<(<<FENCE>>)>>

\* C7: a line yielded by a completed generate is a captured line taken
\* through the replacement pairs of the block that owns it, in declaration
\* order, whichever block referenced it; the stored lines are the captured
\* lines, unsubstituted, at every moment, and closing a block that is not
\* hidden appends its unsubstituted rendering to the Output Sink
C7_Replace ==
    /\ [](\A label \in DOMAIN hist.captured :
             Stored(label) = hist.captured[label])
    /\ [](it.status = "done" =>
             LET o == Origins(it.label, MaxGenDepth)
             IN  it.out = [k \in 1..Len(o) |->
                              Substituted(Config(o[k].owner).replace, o[k].line)])
    /\ [][Closing /\ ~Config(ctx.block).hide =>
             outfd' = outfd \o RawRendering(ctx.block)]_vars

\* B, which replaces a by q, references A, which replaces a by b and then b
\* by c: A's lines came out under A's pairs in order, B's line under B's
C7_Witness ==
    /\ it.status = "done" /\ it.label = "B"
    /\ DictKeys(_blocks) = <<"A", "B">>
    /\ Config("A").replace = <<<<"a", "b">>, <<"b", "c">>>>
    /\ Config("B").replace = <<<<"a", "q">>>>
    /\ hist.captured["A"] = <<Word("a"), Word("b")>>
    /\ hist.captured["B"] = <<Ref("A"), Word("a")>>
    /\ it.out = <<Word("c"), Word("c"), Word("q")>>
    /\ Len(outfd) = 8


\* the block's tags and the filter have a tag in common, or the filter is
\* empty
Selected(label, tags) ==
    tags = <<>> \/ SeqSet(tags) \cap SeqSet(Config(label).tag) # {}

\* C8: blocks(tags) is the labels in the order they were first inserted
\* (hist.first) that share a tag with the filter, all of them under the empty
\* filter; files(tags) is the same list restricted to the blocks with the
\* file flag, hence a sub-list of blocks(tags) in the same order
C8_Listing ==
    /\ listing.kind = "blocks" =>
          listing.value =
              SelectSeq(hist.first, LAMBDA l : Selected(l, listing.tags))
    /\ listing.kind = "files" =>
          /\ listing.value =
                SelectSeq(hist.first,
                          LAMBDA l : Config(l).file /\ Selected(l, listing.tags))
          /\ listing.value =
                SelectSeq(blocks(listing.tags), LAMBDA l : Config(l).file)
    /\ phase = "done" => DictKeys(_blocks) = hist.first

\* A is created, the included file creates B, A again and C; of the three
\* labels, listed in the order A, B, C, the filter foo or bar keeps A alone
C8_Witness ==
    /\ phase = "done"
    /\ hist.first = <<"A", "B", "C">>
    /\ hist.calls = 2
    /\ listing.kind = "blocks"
    /\ listing.tags = <<"foo", "bar">>
    /\ listing.value = <<"A">>
    /\ blocks(<<>>) = <<"A", "B", "C">>
    /\ files(<<>>) = <<"B">>


\* the line about to be read is a well-formed codeblock-open directive with
\* the append marker whose label is not in the store
AppendMissing ==
    /\ HasLine /\ Top.state = INIT
    /\ re_start_codeblock(CurLine).matched
    /\ re_start_codeblock(CurLine).append
    /\ LET m == re_start_codeblock(CurLine)
           ns == block_parser(IF m.lang # None
                              THEN m.args \o <<"--lang", m.lang>> ELSE m.args)
       IN  /\ ns.ok
           /\ ~DictHas(_blocks,
                       IF ns.label = None THEN AutoLabel(blocknum) ELSE ns.label)

\* C9 as stated: an append to a label that is not in the store ends the
\* parse with an error of the program's taxonomy (a SnarlError, exc.py) and
\* leaves the labels of the store as they were
C9_AppendMissing ==
    [][AppendMissing =>
          /\ phase' = "failed"
          /\ err'.type \in SnarlError
          /\ DictKeys(_blocks') = DictKeys(_blocks)]_vars

\* the append to B, which no directive created, has ended the parse with the
\* KeyError of the dict lookup, the store still empty
C9_Witness ==
    /\ fs[RootPath] = Block(Reopen("B", <<>>), <<Word("c")>>)
    /\ phase = "failed"
    /\ err.type = "KeyError"
    /\ err.type \notin SnarlError
    /\ _blocks = <<>>


\* the innermost call of parse has read its input to the end
AtEnd == Looping /\ ~HasLine

\* C10: when the input of a call of parse, the document's or an included
\* file's, ends while the call is capturing a block, the parse ends with
\* UnexpectedEOFError; when it ends in INIT the call returns, to the
\* including call or, for the document, to the caller, and nothing is
\* raised.  Every call below the innermost one waits in INIT, and a closing
\* fence closes only a capture opened by the call that reads the fence.
C10_EndOfInput ==
    /\ [][AtEnd =>
             IF Top.state = READ_CODEBLOCK
             THEN /\ phase' = "failed"
                  /\ err' = [type |-> "UnexpectedEOFError", arg |-> 0]
                  /\ frames' = <<>>
             ELSE /\ frames' = SubSeq(frames, 1, Len(frames) - 1)
                  /\ phase' = (IF Len(frames) = 1 THEN "done" ELSE "parsing")
                  /\ err' = err /\ err.type = "none"]_vars
    /\ [](\A i \in 1..(Len(frames) - 1) : frames[i].state = INIT)
    /\ [][Closing => hist.opened.id = Top.id]_vars
    /\ [](err.type = "UnexpectedEOFError" =>
             /\ phase = "failed"
             /\ DictHas(_blocks, ctx.block))

\* the included file ends inside its block B: the parse has failed there,
\* before the fences of the including document were read
C10_Witness ==
    /\ fs[RootPath] = <<Include("inc", <<>>)>>
                        \o Block(Open("A", <<>>), <<Word("a")>>)
    /\ fs["inc"] = <<Word("p"), Open("B", <<>>), Word("b")>>
    /\ phase = "failed"
    /\ err.type = "UnexpectedEOFError"
    /\ hist.calls = 2
    /\ DictKeys(_blocks) = <<"B">>
    /\ Stored("B") = <<Word("b")>>


\* the line about to be read is a well-formed include directive
IncludeLine ==
    /\ HasLine /\ Top.state = INIT
    /\ ~re_start_codeblock(CurLine).matched
    /\ re_include_file(CurLine).matched
    /\ include_parser(re_include_file(CurLine).args).ok

IncludeArgs == include_parser(re_include_file(CurLine).args)

\* ... and the file it names does not exist
MissingInclude == IncludeLine /\ IncludeArgs.path \notin DOMAIN fs

\* C11: an include directive naming a file that does not exist (open raises
\* FileNotFoundError), verbatim or not, at any depth: under ignore_missing
\* it writes nothing to the Output Sink, changes no block and no counter,
\* and the including call goes on in INIT with its next line; otherwise
\* FileNotFoundError leaves every active call of parse and the pass fails
C11_MissingInclude ==
    /\ [][MissingInclude =>
             IF ignore_missing
             THEN /\ outfd' = outfd
                  /\ _blocks' = _blocks
                  /\ blocknum' = blocknum
                  /\ Len(frames') = Len(frames)
                  /\ frames'[Len(frames)] =
                        [Top EXCEPT !.ln = Top.ln + 1, !.state = INIT]
                  /\ \A i \in 1..(Len(frames) - 1) : frames'[i] = frames[i]
                  /\ phase' = phase /\ err' = err
             ELSE /\ frames' = <<>>
                  /\ phase' = "failed"
                  /\ err'.type = "FileNotFoundError"
                  /\ outfd' = outfd /\ _blocks' = _blocks]_vars
    /\ [](err.type = "FileNotFoundError" => ~ignore_missing /\ phase = "failed")

\* tolerant mode: the included file appended to A twice and then named the
\* missing file; the parse went on and completed, the prose line of the
\* document after the include written
C11_Witness ==
    /\ ignore_missing
    /\ fs[RootPath] = Block(Open("A", <<>>), <<Word("a")>>)
                        \o <<Include("inc", <<>>)>>
    /\ UsesMissing([p \in {"inc"} |-> fs["inc"]])
    /\ phase = "done"
    /\ err.type = "none"
    /\ hist.calls = 2
    /\ Stored("A") = <<Word("a"), Word("b"), Word("c")>>


\* the namespace parse_args gives for the directive about to be read
DirectiveArgs ==
    IF re_start_codeblock(CurLine).matched
    THEN LET m == re_start_codeblock(CurLine)
         IN  block_parser(IF m.lang # None
                          THEN m.args \o <<"--lang", m.lang>> ELSE m.args)
    ELSE include_parser(re_include_file(CurLine).args)

\* the line about to be read is a codeblock-open or include directive whose
\* arguments parse_args rejects: a flag that is not one of the directive's
\* (-h among them), an option short of its arguments, a second positional,
\* no path
BadArguments ==
    /\ HasLine /\ Top.state = INIT
    /\ re_start_codeblock(CurLine).matched \/ re_include_file(CurLine).matched
    /\ ~DirectiveArgs.ok

\* what the claim requires of the step that reads such a directive
ArgumentsRejected ==
    /\ phase' = "failed"
    /\ frames' = <<>>
    /\ err'.type = "BlockArgumentError"
    /\ _blocks' = _blocks
    /\ blocknum' = blocknum
    /\ outfd' = outfd

\* C12 as stated: a directive with an unknown flag or the wrong number of
\* arguments raises BlockArgumentError out of parse and changes nothing
C12_BadArguments == [][BadArguments => ArgumentsRejected]_vars

\* what the program does keep: the claim for every malformed directive but
\* those with -h or --help, where the process exits instead
C12_BadArgumentsButHelp ==
    [][BadArguments =>
          /\ _blocks' = _blocks /\ blocknum' = blocknum /\ outfd' = outfd
          /\ IF DirectiveArgs.help
             THEN phase' = "failed" /\ err'.type = "SystemExit"
             ELSE ArgumentsRejected]_vars

\* the directive =A -h after block A was read: the process has exited from
\* inside parse, which is not a BlockArgumentError
C12_Witness ==
    /\ fs[RootPath] = Block(Open("A", <<>>), <<Word("a")>>)
                        \o <<Open("A", <<"-h">>)>>
    /\ phase = "failed"
    /\ err.type = "SystemExit"
    /\ Stored("A") = <<Word("a")>>


\* the lines stored under a label in the store d
StoredIn(d, label) == DictGet(d, label).fd.lines

IsPrefix(s, t) == Len(s) <= Len(t) /\ SubSeq(t, 1, Len(s)) = s

\* C13 as stated: no step removes a label from the store, and the lines
\* stored under a label before a step are a prefix of those stored after it
C13_AppendOnly ==
    [][\A label \in SeqSet(DictKeys(_blocks)) :
          /\ DictHas(_blocks', label)
          /\ IsPrefix(StoredIn(_blocks, label), StoredIn(_blocks', label))]_vars

\* what the program does keep: labels are never removed, and the stored
\* lines only grow except at a codeblock-open without the append marker
\* that names a label already in the store, which empties them
C13_AppendOnlyButCreate ==
    [][\A label \in SeqSet(DictKeys(_blocks)) :
          /\ DictHas(_blocks', label)
          /\ \/ IsPrefix(StoredIn(_blocks, label), StoredIn(_blocks', label))
             \/ /\ HasLine /\ Top.state = INIT
                /\ re_start_codeblock(CurLine).matched
                /\ ~re_start_codeblock(CurLine).append
                /\ ctx'.block = label
                /\ StoredIn(_blocks', label) = <<>>]_vars

\* block A was read with the line a and written to the Output Sink; a
\* second =A directive has been read and the store holds no line of A
C13_Witness ==
    /\ phase = "parsing"
    /\ outfd = <<(<<FENCE>>), Word("a"), (<<FENCE>>)>>
    /\ frames # <<>> /\ Top.state = READ_CODEBLOCK
    /\ ctx.block = "A"
    /\ DictHas(_blocks, "A")
    /\ Stored("A") = <<>>


\* the line about to be read is an include directive of a file that exists
\* and is to be parsed
ParsedInclude ==
    /\ IncludeLine
    /\ IncludeArgs.path \in DOMAIN fs
    /\ ~IncludeArgs.verbatim

\* C14: a parse runs depth-first.  Reading an include directive at line k
\* puts the call for the included file on top of the including call, which
\* stands after line k, and changes nothing else; until that call has
\* returned, no step moves any call below the innermost one; the Output
\* Sink only grows at its end; and when the included file ends in INIT its
\* call leaves the stack with the Output Sink and the store as it left
\* them, so that the including call reads line k + 1 next, in the one
\* store that holds the blocks of both files.
C14_DepthFirst ==
    /\ [][ParsedInclude =>
             /\ Len(frames') = Len(frames) + 1
             /\ frames'[Len(frames)] = [Top EXCEPT !.ln = Top.ln + 1]
             /\ frames'[Len(frames')].path = IncludeArgs.path
             /\ frames'[Len(frames')].ln = 0
             /\ outfd' = outfd /\ _blocks' = _blocks]_vars
    /\ [][phase = "parsing" =>
             /\ \/ frames' = <<>>
                \/ \A i \in 1..(Len(frames) - 1) : frames'[i] = frames[i]
             /\ IsPrefix(outfd, outfd')
             /\ IsPrefix(DictKeys(_blocks), DictKeys(_blocks'))]_vars
    /\ [][AtEnd /\ Top.state = INIT /\ Len(frames) >= 2 =>
             /\ frames' = SubSeq(frames, 1, Len(frames) - 1)
             /\ phase' = "parsing"
             /\ outfd' = outfd /\ _blocks' = _blocks]_vars

\* the included file created B, A and C; the document then appended to B a
\* reference to A, and generate(B) has expanded it
C14_Witness ==
    /\ fs[RootPath] = <<Include("inc", <<>>)>>
                        \o Block(Reopen("B", <<>>), <<Ref("A")>>)
    /\ phase = "done"
    /\ hist.calls = 2
    /\ DictKeys(_blocks) = <<"B", "A", "C">>
    /\ Stored("B") = <<Word("b"), Ref("A"), Ref("A")>>
    /\ it.status = "done" /\ it.label = "B"
    /\ it.out = <<Word("b"), Word("<b>"), Word("<b>")>>


\* the line about to be read is a verbatim include of a file that exists
VerbatimInclude ==
    /\ IncludeLine
    /\ IncludeArgs.path \in DOMAIN fs
    /\ IncludeArgs.verbatim

\* what a verbatim include leaves alone: the store, the counter, the stack
\* of calls but for the line read, the state INIT, and no call of parse
VerbatimFrame ==
    /\ _blocks' = _blocks
    /\ blocknum' = blocknum
    /\ Len(frames') = Len(frames)
    /\ frames'[Len(frames)] = [Top EXCEPT !.ln = Top.ln + 1]
    /\ frames'[Len(frames)].state = INIT
    /\ \A i \in 1..(Len(frames) - 1) : frames'[i] = frames[i]
    /\ hist'.calls = hist.calls
    /\ phase' = phase /\ err' = err /\ err.type = "none"

\* C15 as stated: a verbatim include appends the lines of the file, as they
\* are, to the Output Sink, and interprets none of them
C15_Original ==
    [][VerbatimInclude =>
          /\ outfd' = outfd \o fs[IncludeArgs.path]
          /\ VerbatimFrame]_vars

\* C15, amended: a verbatim include appends every line of the file, in
\* order, to the Output Sink, HTML-escaped when the directive also carries
\* --escape-html and as it is otherwise, and interprets none of them: the
\* store, the counter and the include depth are unchanged, no call of parse
\* is made, nothing is raised, and the including call stays in INIT
C15_VerbatimInclude ==
    [][VerbatimInclude =>
          /\ Len(outfd') = Len(outfd) + Len(fs[IncludeArgs.path])
          /\ SubSeq(outfd', 1, Len(outfd)) = outfd
          /\ \A i \in 1..Len(fs[IncludeArgs.path]) :
                outfd'[Len(outfd) + i] =
                    IF IncludeArgs.escape_html
                    THEN html_escape(fs[IncludeArgs.path][i])
                    ELSE fs[IncludeArgs.path][i]
          /\ VerbatimFrame]_vars

\* a file with three blocks and two references was included verbatim and
\* escaped: its eleven lines stand escaped between the two prose lines, no
\* block exists, parse was called once
C15_Witness ==
    /\ fs[RootPath] = <<Word("p"), Include("inc", <<"-v", "-e">>), Word("p")>>
    /\ Len(fs["inc"]) = 11
    /\ phase = "done"
    /\ _blocks = <<>> /\ blocknum = 0
    /\ hist.calls = 1
    /\ outfd = <<Word("p")>> \o html_escaper(fs["inc"]) \o <<Word("p")>>
    /\ outfd # <<Word("p")>> \o fs["inc"] \o <<Word("p")>>


----------------------------------------------------------------------------
(* C16: the escape marker *)

\* a call of parse in INIT is about to read a line that begins with a doubled
\* character (process_line, lines 138-149)
EscapedLine ==
    /\ HasLine /\ Top.state = INIT
    /\ CurLine[1] \in {DoubledFence, BackslashFence, DoubledComment}

\* the line with its doubled first character reduced to one occurrence
Unescaped(line) ==
    [line EXCEPT ![1] = CASE @ = DoubledFence -> FENCE
                          [] @ = BackslashFence -> "\\'''"
                          [] @ = DoubledComment -> "<!--"
                          [] OTHER -> @]

\* C16: a line read in INIT that begins with a doubled sentinel character is
\* no directive: it is written to the Output Sink with the doubled character
\* reduced to one occurrence, the call stays in INIT, and no block is opened
\* and no file included
C16_EscapeMarker ==
    [][EscapedLine =>
          /\ outfd' = Append(outfd, Unescaped(CurLine))
          /\ frames' = Consumed(INIT)
          /\ _blocks' = _blocks /\ blocknum' = blocknum]_vars

\* process_line knows no escape marker: the line that begins with two
\* backslashes before a fence was written as it stands, both backslashes kept
C16_Witness ==
    /\ phase = "done" /\ err.type = "none"
    /\ fs[RootPath] = <<(<<BackslashFence, "=", "A">>), Word("p")>>
    /\ outfd = fs[RootPath]
    /\ DictKeys(_blocks) = <<>>


----------------------------------------------------------------------------
(* C17: lines read while capturing *)

\* a capturing call of parse is about to read a line that is no bare close
\* fence (parse, lines 182-192)
CapturedLine ==
    /\ HasLine /\ Top.state = READ_CODEBLOCK
    /\ ~re_end_codeblock(CurLine)

\* the step stores the line, as the call read it, at the end of the active
\* block and does nothing else: no other block changes, no label is added,
\* the counter and the Output Sink are as before, no call of parse is made
\* or left, and the call goes on capturing
CaptureOnly ==
    /\ DictKeys(_blocks') = DictKeys(_blocks)
    /\ StoredIn(_blocks', ctx.block) = Append(Stored(ctx.block), CurLine)
    /\ \A label \in SeqSet(DictKeys(_blocks)) :
          /\ DictGet(_blocks', label).config = Config(label)
          /\ label # ctx.block => StoredIn(_blocks', label) = Stored(label)
    /\ outfd' = outfd /\ blocknum' = blocknum
    /\ frames' = Consumed(READ_CODEBLOCK)
    /\ ctx'.block = ctx.block
    /\ hist'.calls = hist.calls
    /\ phase' = phase /\ err' = err

\* the stored line i of the block being closed is a reference
StoredReference(i) == IsReference(Stored(ctx.block)[i])

\* C17 as stated: a captured line is stored unchanged and has no other
\* effect, and the rendering written at the close fence holds every
\* reference line of the block literally
C17_Original ==
    [][/\ CapturedLine => CaptureOnly
       /\ Closing /\ ~Config(ctx.block).hide =>
             /\ Len(outfd') = Len(outfd) + Len(Stored(ctx.block)) + 2
             /\ \A i \in 1..Len(Stored(ctx.block)) :
                   StoredReference(i) =>
                       outfd'[Len(outfd) + 1 + i] = Stored(ctx.block)[i]]_vars

\* C17, amended: a captured line is stored unchanged and has no other
\* effect; the rendering written at the close fence of a block that is not
\* hidden has one line for each stored line, none expanded: a reference
\* line stands there as it is stored, or HTML-escaped when the block was
\* created with --escape-html
C17_CaptureOnly ==
    [][/\ CapturedLine => CaptureOnly
       /\ Closing /\ ~Config(ctx.block).hide =>
             /\ Len(outfd') = Len(outfd) + Len(Stored(ctx.block)) + 2
             /\ \A i \in 1..Len(Stored(ctx.block)) :
                   StoredReference(i) =>
                       outfd'[Len(outfd) + 1 + i] =
                           IF Config(ctx.block).escape_html
                           THEN html_escape(Stored(ctx.block)[i])
                           ELSE Stored(ctx.block)[i]]_vars

\* block A was read with a codeblock-open, an include directive and a
\* reference among its lines: A is the only block and holds the four lines,
\* parse was called once, and the Output Sink holds them between the fences
C17_Witness ==
    /\ phase = "done" /\ err.type = "none"
    /\ DictKeys(_blocks) = <<"A">>
    /\ Stored("A") = <<Open("B", <<>>), Include("inc", <<>>), Ref("B"), Word("a")>>
    /\ hist.calls = 1
    /\ outfd = <<(<<FENCE>>)>> \o Stored("A") \o <<(<<FENCE>>), Word("p")>>


----------------------------------------------------------------------------
(* C18: termination of generate *)

\* the labels a block refers to in lines that generate resolves
Refs(label) ==
    IF ~DictHas(_blocks, label) \/ Config(label).verbatim THEN {}
    ELSE {re_include_block(Stored(label)[i]).label :
             i \in {j \in 1..Len(Stored(label)) : IsReference(Stored(label)[j])}}

RECURSIVE ReachFrom(_, _)
ReachFrom(S, k) ==
    IF k = 0 THEN S ELSE ReachFrom(S \cup UNION {Refs(x) : x \in S}, k - 1)

\* the labels reachable from a label by references, itself included
Reach(label) == ReachFrom({label}, Len(_blocks) + 1)

\* the graph of references reachable from the label has a cycle
Cyclic(label) ==
    \E x \in Reach(label) : x \in ReachFrom(Refs(x), Len(_blocks) + 1)

\* every label reachable from the label is in the store
AllExist(label) == \A x \in Reach(label) : DictHas(_blocks, x)

\* an iterator obtained from generate(label) is being or has been consumed
Generating == it.status \in {"active", "done", "KeyError", "RecursionError"}

\* each next() yields one line or ends the iterator
GenProgress ==
    [][it.status = "active" /\ it'.label = it.label /\ it' # it =>
          \/ it'.status = "active" /\ Len(it'.out) = Len(it.out) + 1
          \/ it'.status \in {"done", "KeyError", "RecursionError"}
                /\ it'.out = it.out]_vars

\* when the graph is acyclic and every label exists, no exception arises,
\* the lines yielded so far are a prefix of the finite expansion, and the
\* iterator that ended has yielded all of it
GenTerminates ==
    [](Generating /\ ~Cyclic(it.label) /\ AllExist(it.label) =>
          /\ it.status \in {"active", "done"}
          /\ IsPrefix(it.out, Expansion(it.label, MaxGenDepth))
          /\ it.status = "done" => it.out = Expansion(it.label, MaxGenDepth))

----------------------------------------------------------------------------
(* C19: the capturing call and the shared ctx.block *)

\* the innermost call of parse is capturing
Capturing == phase = "parsing" /\ frames # <<>> /\ Top.state = READ_CODEBLOCK

\* the label the most recent codeblock-open resolved to: the one it names,
\* or the anonymous label made from the counter it then advanced
OpenedLabel ==
    IF hist.opened.ns.label = None THEN AutoLabel(blocknum - 1)
    ELSE hist.opened.ns.label

\* the step changes the lines stored under the label
Writes(label) ==
    \/ ~DictHas(_blocks', label)
    \/ StoredIn(_blocks', label) # Stored(label)

\* C19: at every point of a parse only the innermost call can be capturing:
\* every call that waits on an include is in INIT.  Whenever a call is
\* capturing, the most recent codeblock-open was read by that call and
\* ctx.block is the block it resolved, which is in the store; ctx.block
\* stays as it is from the open to the close fence, which the same call
\* reads.  The lines stored under a label change only when a capturing call
\* stores a line in ctx.block, or when a codeblock-open creates the block.
C19_Capturing ==
    /\ [](\A i \in 1..(Len(frames) - 1) :
             frames[i].state = INIT /\ frames[i].pc = "loop")
    /\ [](Capturing =>
             /\ hist.opened.id = Top.id
             /\ ctx.block = OpenedLabel
             /\ DictHas(_blocks, ctx.block))
    /\ [][Capturing /\ phase' = "parsing" =>
             /\ ctx'.block = ctx.block
             /\ Len(frames') = Len(frames)
             /\ frames'[Len(frames)].id = Top.id]_vars
    /\ [][\A label \in SeqSet(DictKeys(_blocks)) :
             Writes(label) =>
                 \/ CapturedLine /\ ctx.block = label
                       /\ StoredIn(_blocks', label) = Append(Stored(label), CurLine)
                 \/ /\ HasLine /\ Top.state = INIT
                    /\ re_start_codeblock(CurLine).matched
                    /\ ~re_start_codeblock(CurLine).append
                    /\ ctx'.block = label]_vars

\* the document closed its block A and includes a file whose call is
\* capturing block B: the including call waits in INIT, the open was read
\* by the included call, and ctx.block is B, which holds the line read
C19_Witness ==
    /\ Len(frames) = 2 /\ Capturing
    /\ frames[1].state = INIT /\ frames[1].ln = 4
    /\ hist.opened.id = 2 /\ Top.id = 2
    /\ ctx.block = "B"
    /\ DictKeys(_blocks) = <<"A", "B">>
    /\ Stored("A") = <<Word("a")>>
    /\ Stored("B") = <<Word("b")>>


----------------------------------------------------------------------------
(* C20: two iterators stepped in any order *)

\* consumed alone, generate(label) ends and yields the expansion
EndsAlone(label) == ~Cyclic(label) /\ AllExist(label)

\* C20: two iterators obtained from generate, stepped in any interleaving,
\* each yield what the same iterator yields when consumed alone: at every
\* moment the lines each has yielded are a prefix of the expansion of its
\* label, and the iterator that has ended has yielded all of it
C20_Independent ==
    /\ [](Generating /\ EndsAlone(it.label) =>
             /\ IsPrefix(it.out, Expansion(it.label, MaxGenDepth))
             /\ it.status = "done" => it.out = Expansion(it.label, MaxGenDepth))
    /\ [](it2.status \in {"active", "done"} /\ EndsAlone(it2.label) =>
             /\ IsPrefix(it2.out, Expansion(it2.label, MaxGenDepth))
             /\ it2.status = "done" => it2.out = Expansion(it2.label, MaxGenDepth))

\* two iterators of the block A, which holds the lines a and b, were stepped
\* in turn: both have ended, the first has yielded a and b, the second only a
C20_Witness ==
    /\ it.status = "done" /\ it2.status = "done"
    /\ it.label = "A" /\ it2.label = "A"
    /\ Stored("A") = <<Word("a"), Word("b")>>
    /\ Config("A").replace = <<>>
    /\ it.out = <<Word("a"), Word("b")>>
    /\ it2.out = <<Word("a")>>
====
